---- MODULE Spec2Model ----
(***************************************************************************)
(* Family resolution, access guard, content distribution and billing of    *)
(* the Nadanaloga portal server (src/server/server.js).  The file holds    *)
(* two builds of the server: the token build (lines 1-1335) and the        *)
(* session build (lines 1336-2355).  Where the two differ both are         *)
(* modelled; the session build's definitions end in "Session".             *)
(***************************************************************************)
EXTENDS Integers, Sequences, FiniteSets, TLC

VARIABLES
  users,          \* the User collection: id -> document
  session,        \* the principal carried by the cookie (snapshot taken at login)
  resp,           \* the response to the last family-scoped request
  notifications,  \* the Notification collection, in insertion order
  content,        \* the four content collections: id -> document
  tx,             \* the transaction of the running POST /api/admin/content/send
  sendResp,       \* the response to the last POST /api/admin/content/send, and what it did
  feeStructures,  \* the FeeStructure collection: id -> document
  invoices,       \* the Invoice collection, in insertion order
  clock,          \* the month new Date() falls in
  runs,           \* the running POST /api/admin/invoices/generate requests
  genHist,        \* created counts of the runs completed back to back, undisturbed
  mailTransporter,\* whether the mail transport is configured (null when it is not)
  outbox,         \* the mails handed to mailTransporter.sendMail
  reg,            \* the transaction of the running POST /api/register
  acct            \* the response to the last account request

vars == <<users, session, resp, notifications, content, tx, sendResp,
          feeStructures, invoices, clock, runs, genHist,
          mailTransporter, outbox, reg, acct>>

famVars     == <<session, resp>>
contentVars == <<content, tx, sendResp>>
billVars    == <<feeStructures, invoices, clock, runs, genHist>>
mailVars    == <<mailTransporter, outbox>>
acctVars    == <<reg, acct>>

(***************************************************************************)
(* Strings.  An email is a sequence of one-character strings, so that      *)
(* toLowerCase, split and the regular expression act on characters.        *)
(***************************************************************************)
Lower(c) ==
  CASE c = "P" -> "p" [] c = "Q" -> "q" [] c = "C" -> "c"
    [] c = "X" -> "x" [] c = "Y" -> "y" [] c = "Z" -> "z" [] OTHER -> c

toLowerCase(s) == [i \in 1..Len(s) |-> Lower(s[i])]

\* String.prototype.split(sep) for a one-character separator.
RECURSIVE split(_, _)
split(s, sep) ==
  IF \A i \in 1..Len(s) : s[i] # sep
  THEN <<s>>
  ELSE LET k == CHOOSE i \in 1..Len(s) : s[i] = sep /\ \A j \in 1..(i - 1) : s[j] # sep
       IN  <<SubSeq(s, 1, k - 1)>> \o split(SubSeq(s, k + 1, Len(s)), sep)

\* The characters of the class [.*+?^${}()|[\\] of the escaping expression.
Special == {".", "*", "+", "?", "^", "$", "{", "}", "(", ")", "|", "[", "\\"}

\* x.replace(/[.*+?^${}()|[\\]\\\\]/g, '\\$&'): the class is closed by the first
\* unescaped "]", so the expression matches one special character followed by
\* two backslashes and a "]", and only such a match gets a backslash in front.
RECURSIVE escapeRegExp(_)
escapeRegExp(s) ==
  IF s = <<>> THEN <<>>
  ELSE IF Len(s) >= 4 /\ s[1] \in Special /\ s[2] = "\\" /\ s[3] = "\\" /\ s[4] = "]"
       THEN <<"\\">> \o SubSeq(s, 1, 4) \o escapeRegExp(SubSeq(s, 5, Len(s)))
       ELSE <<s[1]>> \o escapeRegExp(Tail(s))

\* The atoms of a pattern text over letters, ".", and escaped characters:
\* "." matches any character, an escaped character and a letter match themselves.
RECURSIVE Atoms(_)
Atoms(p) ==
  IF p = <<>> THEN <<>>
  ELSE IF p[1] = "\\" /\ Len(p) >= 2
       THEN <<[any |-> FALSE, ch |-> p[2]]>> \o Atoms(SubSeq(p, 3, Len(p)))
       ELSE <<[any |-> p[1] = ".", ch |-> p[1]]>> \o Atoms(Tail(p))

\* One atom against one character under the "i" flag.
AtomMatch(a, c) == a.any \/ Lower(a.ch) = Lower(c)

\* new RegExp(`^${base}(\\+.+)?@${domain}$`, 'i').test(email), base and domain
\* escaped as above: the base atoms, then nothing or "+" and at least one
\* character, then "@", then the domain atoms up to the end.
emailRegexTest(baseUsername, domain, email) ==
  LET pb  == Atoms(escapeRegExp(baseUsername))
      pd  == Atoms(escapeRegExp(domain))
      n   == Len(email)
      lb  == Len(pb)
      ld  == Len(pd)
      mid == n - ld - 1 - lb
  IN  /\ mid >= 0
      /\ \A i \in 1..lb : AtomMatch(pb[i], email[i])
      /\ email[n - ld] = "@"
      /\ \A j \in 1..ld : AtomMatch(pd[j], email[n - ld + j])
      /\ \/ mid = 0
         \/ mid >= 2 /\ email[lb + 1] = "+"

\* new RegExp(...) throws a SyntaxError ("Nothing to repeat") when the text put
\* after "^" begins with a quantifier.  The other ways a pattern can be invalid
\* (an unbalanced parenthesis or bracket) need characters the emails drawn
\* below do not have.
Quantifiers == {"*", "+", "?"}
RegExpThrows(baseUsername, domain) ==
  LET text == escapeRegExp(baseUsername)
  IN  text # <<>> /\ text[1] \in Quantifiers

(***************************************************************************)
(* The accounts and the emails the model draws from.                       *)
(***************************************************************************)
UserIds == {"u1", "u2", "u3"}
NoUser  == "u0"            \* a well-formed id no document has

E_p      == <<"p", "@", "x", ".", "y">>                 \* p@x.y
E_pc     == <<"p", "+", "c", "@", "x", ".", "y">>       \* p+c@x.y
E_PC     == <<"P", "+", "C", "@", "X", ".", "Y">>       \* P+C@X.Y
E_pplus  == <<"p", "+", "@", "x", ".", "y">>            \* p+@x.y   (empty tag)
E_q      == <<"q", "@", "x", ".", "y">>                 \* q@x.y    (other local part)
E_pxzy   == <<"p", "@", "x", "z", "y">>                 \* p@xzy    (other domain, same length)
E_noat   == <<"p", "x", "y">>                           \* pxy      (no "@")
E_star   == <<"*", "@", "x", ".", "y">>                 \* *@x.y   (a quantifier as local part)
E_t      == <<"t", "@", "x", ".", "y">>                 \* t@x.y

Emails == {E_p, E_pc, E_PC, E_pplus, E_q, E_pxzy, E_noat, E_star}

Doc(email, role) ==
  [present |-> TRUE, email |-> email, role |-> role, isDeleted |-> FALSE, courses |-> <<>>]

Note(userId, subject, message) ==
  [userId |-> userId, subject |-> subject, message |-> message, read |-> FALSE]

NoSession == [id |-> NoUser, email |-> <<>>, role |-> "None"]
NoResp    == [op |-> "none", build |-> "", target |-> "", nid |-> 0, status |-> 0,
              message |-> "", ids |-> {}, family |-> {}]

\* No registration running; no account request answered yet.
IdleReg == [pc |-> "idle", build |-> "", usersData |-> <<>>, k |-> 1, adminUser |-> NoUser,
            saved |-> <<>>, notes |-> <<>>]
NoAcct  == [op |-> "none", status |-> 0, saved |-> 0]

(***************************************************************************)
(* Family Resolver                                                         *)
(***************************************************************************)
\* User.find({ email: emailRegex, role: 'Student' }): no isDeleted condition.
FamilyQuery(baseUsername, domain) ==
  {u \in UserIds : /\ users[u].present
                   /\ users[u].role = "Student"
                   /\ emailRegexTest(baseUsername, domain, users[u].email)}

\* The call ends in the SyntaxError of new RegExp(...).
getFamilyMemberIdsThrows(sessionUser) ==
  LET emailParts == split(toLowerCase(sessionUser.email), "@")
  IN  /\ sessionUser.role # "Teacher"
      /\ Len(emailParts) >= 2
      /\ RegExpThrows(split(emailParts[1], "+")[1], emailParts[2])

\* The array the call returns when it returns.
getFamilyMemberIdsWholeLocal(sessionUser) ==
  IF sessionUser.role = "Teacher" THEN {sessionUser.id}
  ELSE LET emailParts == split(toLowerCase(sessionUser.email), "@")
       IN  IF Len(emailParts) < 2 THEN {sessionUser.id}
           ELSE FamilyQuery(emailParts[1], emailParts[2]) \cup {sessionUser.id}

getFamilyMemberIds(sessionUser) ==
  IF sessionUser.role = "Teacher" THEN {sessionUser.id}
  ELSE LET loggedInEmail == toLowerCase(sessionUser.email)
           emailParts    == split(loggedInEmail, "@")
       IN  IF Len(emailParts) < 2 THEN {sessionUser.id}
           ELSE FamilyQuery(split(emailParts[1], "+")[1], emailParts[2])
                  \cup {sessionUser.id}

\* The session build destructures [local, domain] and returns early on !domain,
\* which an empty domain also satisfies.
getFamilyMemberIdsSessionThrows(sessionUser) ==
  LET parts == split(toLowerCase(sessionUser.email), "@")
  IN  /\ sessionUser.role # "Teacher"
      /\ Len(parts) >= 2 /\ parts[2] # <<>>
      /\ RegExpThrows(split(parts[1], "+")[1], parts[2])

getFamilyMemberIdsSession(sessionUser) ==
  IF sessionUser.role = "Teacher" THEN {sessionUser.id}
  ELSE LET loggedInEmail == toLowerCase(sessionUser.email)
           parts         == split(loggedInEmail, "@")
       IN  IF Len(parts) < 2 \/ parts[2] = <<>> THEN {sessionUser.id}
           ELSE FamilyQuery(split(parts[1], "+")[1], parts[2])
                  \cup {sessionUser.id}

(***************************************************************************)
(* Access Guard                                                            *)
(***************************************************************************)
\* The status ensureStudentInFamily ends with: 200 stands for next().
ensureStudentInFamily(sessionUser, studentId) ==
  LET loggedInEmail == toLowerCase(sessionUser.email)
      emailParts    == split(loggedInEmail, "@")
  IN  IF loggedInEmail = <<>> THEN 401
      ELSE IF Len(emailParts) < 2 THEN 500      \* domain is undefined: TypeError, caught
      ELSE IF RegExpThrows(split(emailParts[1], "+")[1], emailParts[2]) THEN 500
      ELSE IF \/ studentId \notin UserIds
              \/ ~users[studentId].present
              \/ users[studentId].role # "Student"
              \/ ~emailRegexTest(split(emailParts[1], "+")[1], emailParts[2],
                                 users[studentId].email)
           THEN 403
           ELSE 200

ensureStudentInFamilySession(sessionUser, studentId) ==
  LET loggedInEmail == toLowerCase(sessionUser.email)
      parts         == split(loggedInEmail, "@")
  IN  IF Len(parts) < 2 THEN 500
      ELSE IF RegExpThrows(split(parts[1], "+")[1], parts[2]) THEN 500
      ELSE IF \/ studentId \notin UserIds
              \/ ~users[studentId].present
              \/ users[studentId].role # "Student"
              \/ ~emailRegexTest(split(parts[1], "+")[1], parts[2],
                                 users[studentId].email)
           THEN 403
           ELSE 200

\* The message sent with the status the guard ends with.
ensureStudentInFamilyMessage(status) ==
  CASE status = 401 -> "Unauthorized"
    [] status = 403 -> "Forbidden: You do not have permission to access this student's data."
    [] status = 500 -> "Server error during authorization."
    [] OTHER -> ""

(***************************************************************************)
(* Mail: mailTransporter.sendMail(mail).catch(err => console.error(...)).  *)
(* A mail is handed over and the handler goes on; the delivery settles     *)
(* later.  `call` and `outcome` record which request handed the mail over  *)
(* and how that request's writes ended.                                    *)
(***************************************************************************)
MaxMails == 3

Mail(to, call) == [to |-> to, call |-> call, outcome |-> "open", delivery |-> "sending"]

\* The mails of the handler's loop over the users, when a transport is configured.
sendMail(recipients, call) ==
  IF mailTransporter THEN outbox \cup {Mail(u, call) : u \in recipients} ELSE outbox

\* The request's writes are committed, or rolled back.
Close(call, outcome) ==
  {IF m.call = call /\ m.outcome = "open" THEN [m EXCEPT !.outcome = outcome] ELSE m :
     m \in outbox}

\* The promise of a sendMail call settles; a rejection is logged by the catch.
MailSettlesAborting(m, delivery) ==
  /\ m \in outbox /\ m.delivery = "sending"
  /\ outbox' = (outbox \ {m}) \cup {[m EXCEPT !.delivery = delivery]}
  /\ notifications' = IF delivery = "failed" THEN <<>> ELSE notifications
  /\ UNCHANGED <<mailTransporter, acctVars, users, famVars, contentVars, billVars>>

MailSettles(m, delivery) ==
  /\ m \in outbox /\ m.delivery = "sending"
  /\ outbox' = (outbox \ {m}) \cup {[m EXCEPT !.delivery = delivery]}
  /\ UNCHANGED <<mailTransporter, acctVars, users, famVars, notifications, contentVars,
                 billVars>>

(***************************************************************************)
(* Content Distribution Ledger: POST /api/admin/content/send               *)
(***************************************************************************)
ContentIds == {"c1"}
NoContent  == "c0"         \* a well-formed id no content document has
Kinds      == {"Event", "GradeExam", "BookMaterial", "Notice"}   \* the keys of Models

MaxNotifications == 4      \* no send starts that could take the collection beyond this

Range(f) == {f[i] : i \in DOMAIN f}

NoArgs == [contentId |-> NoContent, contentType |-> "", userIds |-> <<>>,
           subject |-> "", message |-> ""]

IdleTx == [pc |-> "idle", args |-> NoArgs, repeat |-> FALSE, clean |-> FALSE,
           updated |-> FALSE,
           found |-> <<>>, liveIds |-> {}, recipients |-> <<>>, notes |-> <<>>,
           prevRecip |-> <<>>, prevCount |-> [u \in UserIds |-> 0]]

NoSendResp == [status |-> 0, args |-> NoArgs, repeat |-> FALSE, clean |-> FALSE,
               updated |-> FALSE,
               made |-> <<>>, liveIds |-> {}, failedAt |-> "",
               prevRecip |-> <<>>, recipAfter |-> <<>>,
               prevCount |-> [u \in UserIds |-> 0],
               countAfter |-> [u \in UserIds |-> 0]]

\* Any write that is not the send's own ends an undisturbed pair of sends: the
\* running send is no repeat, and no later send is a repeat of it.
Disturb ==
  /\ sendResp' = NoSendResp
  /\ tx' = [tx EXCEPT !.repeat = FALSE, !.clean = FALSE]

\* { $addToSet: { recipientIds: { $each: userIds } } }
addToSetPush(list, ids) == list \o ids

RECURSIVE addToSet(_, _)
addToSet(list, ids) ==
  IF ids = <<>> THEN list
  ELSE addToSet(IF Head(ids) \in Range(list) THEN list ELSE Append(list, Head(ids)),
                Tail(ids))

\* Model.findByIdAndUpdate(contentId, ...) finds a document only in the
\* collection of the given type.
ContentExists(contentId, contentType) ==
  /\ contentId \in ContentIds
  /\ content[contentId].present
  /\ content[contentId].kind = contentType

\* User.find({ _id: { $in: userIds } }): the documents of the ids, each once, in
\* the collection's order; no isDeleted condition.
UserOrder == <<"u1", "u2", "u3">>
UsersIn(userIds) ==
  SelectSeq(UserOrder, LAMBDA u : u \in Range(userIds) /\ users[u].present)

CountFor(notes, u) == Cardinality({i \in DOMAIN notes : notes[i].userId = u})

\* What the other connections see of the content collections once the update
\* has run with { session: sessionDb }: the write stays in the transaction.
UpdateOutsideSession(contentId, recipients) ==
  [content EXCEPT ![contentId].recipientIds = recipients]

UpdateInSession(contentId, recipients) == content

\* The request is validated, then startSession() and startTransaction().  When
\* the request repeats the one just answered with success, the transaction keeps
\* what that answer left behind, for comparison.
SendBegin(args) ==
  /\ tx.pc = "idle"
  /\ Len(notifications) + Len(args.userIds) <= MaxNotifications
  /\ IF Len(args.userIds) = 0 \/ args.contentType \notin Kinds
     THEN /\ sendResp' = [NoSendResp EXCEPT !.status = 400, !.args = args]
          /\ tx' = tx
     ELSE /\ tx' = [IdleTx EXCEPT
                      !.pc = "update", !.args = args, !.clean = TRUE,
                      !.repeat = (/\ sendResp.status = 200 /\ sendResp.clean
                                  /\ sendResp.args = args),
                      !.prevRecip = sendResp.recipAfter,
                      !.prevCount = sendResp.countAfter]
          /\ sendResp' = NoSendResp
  /\ UNCHANGED <<mailVars, acctVars, users, famVars, notifications, content, billVars>>

\* await Model.findByIdAndUpdate(contentId, { $addToSet: ... }, { session }):
\* the first operation of the transaction, which fixes its snapshot.
SendUpdate ==
  /\ tx.pc = "update"
  /\ LET a      == tx.args
         exists == ContentExists(a.contentId, a.contentType)
         recips == IF exists THEN addToSet(content[a.contentId].recipientIds, a.userIds)
                   ELSE <<>>
     IN  /\ tx' = [tx EXCEPT
                     !.pc = "insert", !.updated = exists, !.recipients = recips,
                     !.found = UsersIn(a.userIds),
                     !.liveIds = {u \in Range(a.userIds) \cap UserIds :
                                    users[u].present /\ ~users[u].isDeleted}]
         /\ content' = IF exists THEN UpdateInSession(a.contentId, recips) ELSE content
  /\ UNCHANGED <<mailVars, acctVars, users, famVars, notifications, sendResp, billVars>>

\* const users = await User.find(...).session(sessionDb); if (users.length > 0)
\* await Notification.insertMany(users.map(...), { session: sessionDb }), then
\* the mails, one per user found, handed over inside the try, before the commit.
SendInsert ==
  /\ tx.pc = "insert"
  /\ tx' = [tx EXCEPT
              !.pc = "commit",
              !.notes = [i \in DOMAIN tx.found |->
                           Note(tx.found[i], tx.args.subject, tx.args.message)]]
  /\ outbox' = sendMail(Range(tx.found), "send")
  /\ Cardinality(outbox') <= MaxMails
  /\ UNCHANGED <<mailTransporter, acctVars, users, famVars, notifications, content,
                 sendResp, billVars>>

\* await sessionDb.commitTransaction(); res.json({ success: true, ... }).
SendCommit ==
  /\ tx.pc = "commit"
  /\ LET a == tx.args
     IN  /\ content' = IF tx.updated
                       THEN [content EXCEPT ![a.contentId].recipientIds = tx.recipients]
                       ELSE content
         /\ notifications' = notifications \o tx.notes
         /\ sendResp' = [NoSendResp EXCEPT
                           !.status = 200, !.args = a, !.repeat = tx.repeat,
                           !.clean = tx.clean,
                           !.updated = tx.updated, !.made = tx.notes,
                           !.liveIds = tx.liveIds,
                           !.prevRecip = tx.prevRecip,
                           !.recipAfter = IF tx.updated THEN tx.recipients ELSE <<>>,
                           !.prevCount = tx.prevCount,
                           !.countAfter = [u \in UserIds |->
                                             CountFor(notifications \o tx.notes, u)]]
  /\ tx' = IdleTx
  /\ outbox' = Close("send", "committed")
  /\ UNCHANGED <<mailTransporter, acctVars, users, famVars, billVars>>

\* Any awaited store operation of the try block throws: abortTransaction(), 500.
SendFail ==
  /\ tx.pc \in {"update", "insert", "commit"}
  /\ sendResp' = [NoSendResp EXCEPT !.status = 500, !.args = tx.args, !.failedAt = tx.pc]
  /\ tx' = IdleTx
  /\ outbox' = Close("send", "aborted")
  /\ UNCHANGED <<mailTransporter, acctVars, users, famVars, notifications, content,
                 billVars>>

\* DELETE /api/admin/events/:id and its three siblings.  A document the running
\* transaction has written is locked until the transaction ends.
DeleteContent(c) ==
  /\ content[c].present
  /\ ~(tx.pc \in {"insert", "commit"} /\ tx.updated /\ tx.args.contentId = c)
  /\ content' = [content EXCEPT ![c].present = FALSE]
  /\ Disturb
  /\ UNCHANGED <<mailVars, acctVars, users, famVars, notifications, billVars>>

\* POST /api/admin/events and its three siblings: new model(req.body).save().
\* The body's recipientIds, when it has any, are stored as the array given; the
\* schema's default is the empty array.
CreateContent(c, kind, body) ==
  /\ ~content[c].present
  /\ content' = [content EXCEPT ![c] =
                   [present |-> TRUE, kind |-> kind,
                    recipientIds |-> IF body.hasRecipientIds THEN body.recipientIds ELSE <<>>]]
  /\ Disturb
  /\ UNCHANGED <<mailVars, acctVars, users, famVars, notifications, billVars>>

\* PUT /api/admin/events/:id and its three siblings:
\* model.findByIdAndUpdate(req.params.id, req.body, { new: true }) sets the
\* fields the body has; with no document of the id it changes nothing.  A
\* document the running transaction has written is locked until it ends.
UpdateContent(c, kind, body) ==
  /\ ~(tx.pc \in {"insert", "commit"} /\ tx.updated /\ tx.args.contentId = c)
  /\ content' = IF ContentExists(c, kind) /\ body.hasRecipientIds
                THEN [content EXCEPT ![c].recipientIds = body.recipientIds]
                ELSE content
  /\ Disturb
  /\ UNCHANGED <<mailVars, acctVars, users, famVars, notifications, billVars>>

(***************************************************************************)
(* Billing Cycle Engine: POST /api/admin/invoices/generate                 *)
(***************************************************************************)
FeeIds   == {"f1", "f2"}
FeeOrder == <<"f1", "f2">>                 \* the order FeeStructure.find() returns
RunIds   == {1, 2}                         \* the generate requests that may be in flight

MaxInvoices == 4     \* no invoice is created beyond this many created or being saved
MaxClock    == 3     \* the clock stops after April 2025

monthNames == <<"January", "February", "March", "April", "May", "June", "July",
                "August", "September", "October", "November", "December">>

\* `${monthNames[now.getMonth()]} ${now.getFullYear()}`, the clock counting the
\* months from January 2025.
BillingPeriod(now) ==
  [month |-> monthNames[(now % 12) + 1], year |-> 2025 + (now \div 12)]

Fee(courseName, amount, currency, billingCycle) ==
  [present |-> TRUE, courseName |-> courseName, amount |-> amount,
   currency |-> currency, billingCycle |-> billingCycle]

IdleRun == [pc |-> "idle", fees |-> <<>>, students |-> <<>>, period |-> BillingPeriod(0),
            i |-> 1, j |-> 1, created |-> 0, pending |-> <<>>, made |-> <<>>,
            clean |-> FALSE]

\* A write or a clock change that is not the run's own ends an undisturbed
\* succession of runs.
DisturbBilling ==
  /\ genHist' = <<>>
  /\ runs' = [r \in DOMAIN runs |-> [runs[r] EXCEPT !.clean = FALSE]]

\* new Map(feeStructures.map(fs => [fs.courseName, fs])).get(courseName): the
\* last structure of that course name, "none" standing for undefined.
structuresMap(fees, courseName) ==
  LET hits == SelectSeq(FeeOrder, LAMBDA f : fees[f].present /\ fees[f].courseName = courseName)
  IN  IF hits = <<>> THEN "none" ELSE hits[Len(hits)]

\* User.find({ role: 'Student', courses: { $exists: true, $not: { $size: 0 } } }):
\* no isDeleted condition.
StudentsWithCourses ==
  LET ids == SelectSeq(UserOrder, LAMBDA u : /\ users[u].present
                                             /\ users[u].role = "Student"
                                             /\ users[u].courses # <<>>)
  IN  [k \in DOMAIN ids |-> [id |-> ids[k], courses |-> users[ids[k]].courses,
                              isDeleted |-> users[ids[k]].isDeleted]]

\* if (!feeStructure || feeStructure.billingCycle !== 'Monthly') continue;
BillableAnyCycle(fees, fid) == fid # "none"

Billable(fees, fid) == fid # "none" /\ fees[fid].billingCycle = "Monthly"

\* Invoice.findOne({ studentId, feeStructureId, billingPeriod }) finding a document.
ExistingInvoiceAnyPeriod(studentId, feeStructureId, billingPeriod) ==
  \E k \in DOMAIN invoices :
     /\ invoices[k].studentId = studentId
     /\ invoices[k].feeStructureId = feeStructureId

ExistingInvoiceAnyStudent(studentId, feeStructureId, billingPeriod) ==
  \E k \in DOMAIN invoices :
     /\ invoices[k].feeStructureId = feeStructureId
     /\ invoices[k].billingPeriod = billingPeriod

ExistingInvoice(studentId, feeStructureId, billingPeriod) ==
  \E k \in DOMAIN invoices :
     /\ invoices[k].studentId = studentId
     /\ invoices[k].feeStructureId = feeStructureId
     /\ invoices[k].billingPeriod = billingPeriod

\* new Invoice({...}) with issueDate = new Date() and
\* dueDate = new Date(issueDate.getFullYear(), issueDate.getMonth(), 15).
NewInvoice(studentId, feeStructureId, fs, billingPeriod, issueDate) ==
  [studentId |-> studentId, feeStructureId |-> feeStructureId,
   courseName |-> fs.courseName, amount |-> fs.amount, currency |-> fs.currency,
   issueDate |-> issueDate,
   dueDate |-> [day |-> 15, month |-> BillingPeriod(issueDate)],
   billingPeriod |-> billingPeriod, status |-> "Pending", paymentDetails |-> "none"]

InFlight == Len(invoices) + Len(runs[1].pending) + Len(runs[2].pending)

\* const feeStructures = await FeeStructure.find();
GenLoadFees(r) ==
  /\ runs[r].pc = "idle"
  /\ LET alone == \A q \in RunIds : runs[q].pc = "idle"
     IN  /\ runs' = [q \in RunIds |->
                       IF q = r
                       THEN [IdleRun EXCEPT !.pc = "students", !.fees = feeStructures,
                                            !.clean = alone]
                       ELSE [runs[q] EXCEPT !.clean = FALSE]]
         /\ genHist' = IF alone THEN genHist ELSE <<>>
  /\ UNCHANGED <<mailVars, acctVars, users, famVars, notifications, contentVars, feeStructures, invoices, clock>>

\* const students = await User.find(...); then the map, now and the period.
GenLoadStudents(r) ==
  /\ runs[r].pc = "students"
  /\ runs' = [runs EXCEPT ![r].pc = "loop", ![r].students = StudentsWithCourses,
                          ![r].period = BillingPeriod(clock)]
  /\ UNCHANGED <<mailVars, acctVars, users, famVars, notifications, contentVars, feeStructures, invoices,
                 clock, genHist>>

\* One turn of the inner for loop: the structure of the course, the findOne, and
\* invoicePromises.push(invoice.save()), which starts the save and does not wait.
GenCheck(r) ==
  /\ runs[r].pc = "loop"
  /\ runs[r].i <= Len(runs[r].students)
  /\ LET run     == runs[r]
         student == run.students[run.i]
         last    == run.j >= Len(student.courses)
         next    == [run EXCEPT !.i = IF last THEN run.i + 1 ELSE run.i,
                                !.j = IF last THEN 1 ELSE run.j + 1]
         fid     == structuresMap(run.fees, student.courses[run.j])
     IN  IF ~Billable(run.fees, fid) \/ ExistingInvoice(student.id, fid, run.period)
         THEN runs' = [runs EXCEPT ![r] = next]
         ELSE LET invoice == NewInvoice(student.id, fid, run.fees[fid], run.period, clock)
              IN  /\ InFlight < MaxInvoices
                  /\ runs' = [runs EXCEPT ![r] =
                                [next EXCEPT !.created = run.created + 1,
                                             !.pending = Append(run.pending, invoice),
                                             !.made = Append(run.made, invoice)]]
  /\ UNCHANGED <<mailVars, acctVars, users, famVars, notifications, contentVars, feeStructures, invoices,
                 clock, genHist>>

\* A save started by the run reaches the collection.
GenSaveLands(r) ==
  /\ runs[r].pending # <<>>
  /\ invoices' = Append(invoices, Head(runs[r].pending))
  /\ runs' = [runs EXCEPT ![r].pending = Tail(runs[r].pending)]
  /\ UNCHANGED <<mailVars, acctVars, users, famVars, notifications, contentVars, feeStructures, clock, genHist>>

\* await Promise.all(invoicePromises); res.status(201).json(...).
GenFinish(r) ==
  /\ runs[r].pc = "loop"
  /\ runs[r].i > Len(runs[r].students)
  /\ runs[r].pending = <<>>
  /\ genHist' = IF ~runs[r].clean THEN <<>>
                ELSE IF genHist = <<>> THEN <<runs[r].created>>
                ELSE <<genHist[Len(genHist)], runs[r].created>>
  /\ runs' = [runs EXCEPT ![r] = IdleRun]
  /\ UNCHANGED <<mailVars, acctVars, users, famVars, notifications, contentVars, feeStructures, invoices, clock>>

\* PUT /api/admin/feestructures/:id: findByIdAndUpdate(id, req.body) sets the
\* fields the body has.  No document: 404.  A course name another structure
\* has: the unique index rejects the write, 500.
UpdateFeeCascading(f, body) ==
  /\ feeStructures[f].present
  /\ feeStructures' = [feeStructures EXCEPT ![f] = body @@ feeStructures[f]]
  /\ invoices' = [k \in DOMAIN invoices |->
                    IF invoices[k].feeStructureId = f
                    THEN [a \in DOMAIN invoices[k] |->
                            IF a \in DOMAIN body THEN body[a] ELSE invoices[k][a]]
                    ELSE invoices[k]]
  /\ DisturbBilling
  /\ UNCHANGED <<mailVars, acctVars, users, famVars, notifications, contentVars, clock>>

UpdateFee(f, body) ==
  /\ feeStructures' =
        IF \/ ~feeStructures[f].present
           \/ /\ "courseName" \in DOMAIN body
              /\ \E g \in FeeIds \ {f} : /\ feeStructures[g].present
                                          /\ feeStructures[g].courseName = body.courseName
        THEN feeStructures
        ELSE [feeStructures EXCEPT ![f] = body @@ feeStructures[f]]
  /\ DisturbBilling
  /\ UNCHANGED <<mailVars, acctVars, users, famVars, notifications, contentVars, invoices, clock>>

\* DELETE /api/admin/feestructures/:id: findByIdAndDelete; invoices are left alone.
DeleteFee(f) ==
  /\ feeStructures[f].present
  /\ feeStructures' = [feeStructures EXCEPT ![f].present = FALSE]
  /\ DisturbBilling
  /\ UNCHANGED <<mailVars, acctVars, users, famVars, notifications, contentVars, invoices, clock>>

\* PUT /api/admin/invoices/:id/pay:
\* findByIdAndUpdate(id, { status: 'Paid', paymentDetails }), whatever the
\* status was; 404 and no write when no invoice has the id.
PayInvoiceReopens(k, paymentDetails) ==
  /\ invoices' = IF k \in DOMAIN invoices
                 THEN [invoices EXCEPT
                         ![k].status = IF @ = "Paid" THEN "Pending" ELSE "Paid",
                         ![k].paymentDetails = paymentDetails]
                 ELSE invoices
  /\ DisturbBilling
  /\ UNCHANGED <<mailVars, acctVars, users, famVars, notifications, contentVars, feeStructures, clock>>

PayInvoice(k, paymentDetails) ==
  /\ invoices' = IF k \in DOMAIN invoices
                 THEN [invoices EXCEPT ![k].status = "Paid",
                                       ![k].paymentDetails = paymentDetails]
                 ELSE invoices
  /\ DisturbBilling
  /\ UNCHANGED <<mailVars, acctVars, users, famVars, notifications, contentVars, feeStructures, clock>>

\* The month changes.
Tick ==
  /\ clock < MaxClock
  /\ clock' = clock + 1
  /\ DisturbBilling
  /\ UNCHANGED <<mailVars, acctVars, users, famVars, notifications, contentVars, feeStructures, invoices>>

(***************************************************************************)
(* Requests of the family specification.  Admin routes run behind          *)
(* ensureAdmin under an administrator's own cookie, which is not the       *)
(* cookie `session` models.                                                *)
(***************************************************************************)
\* POST /api/login: the account is looked up by the lower-cased email, and the
\* cookie carries the document as it is at that moment.
Login(e) ==
  /\ \E u \in UserIds :
       /\ users[u].present
       /\ users[u].email = toLowerCase(e)
       /\ session' = [id |-> u, email |-> users[u].email, role |-> users[u].role]
  /\ resp' = NoResp
  /\ UNCHANGED <<mailVars, acctVars, users, notifications, contentVars, billVars>>

\* DELETE /api/admin/users/:id
SoftDeleteUser(u) ==
  /\ users[u].present
  /\ ~users[u].isDeleted
  /\ users' = [users EXCEPT ![u].isDeleted = TRUE]
  /\ resp' = NoResp
  /\ Disturb
  /\ DisturbBilling
  /\ acct' = NoAcct
  /\ UNCHANGED <<mailVars, reg, session, notifications, content, feeStructures, invoices, clock>>

\* PUT /api/admin/trash/:id/restore
RestoreUser(u) ==
  /\ users[u].present
  /\ users[u].isDeleted
  /\ users' = [users EXCEPT ![u].isDeleted = FALSE]
  /\ resp' = NoResp
  /\ Disturb
  /\ DisturbBilling
  /\ acct' = NoAcct
  /\ UNCHANGED <<mailVars, reg, session, notifications, content, feeStructures, invoices, clock>>

\* GET /api/family/students/:studentId/invoices and .../enrollments:
\* ensureAuthenticated, then ensureStudentInFamily, then the handler.
GetFamilyStudentData(op, studentId) ==
  /\ session # NoSession
  /\ LET status == ensureStudentInFamily(session, studentId)
     IN  resp' = [NoResp EXCEPT !.op = op, !.build = "token", !.target = studentId,
                    !.status = status, !.message = ensureStudentInFamilyMessage(status)]
  /\ UNCHANGED <<mailVars, acctVars, users, session, notifications, contentVars, billVars>>

GetFamilyStudentDataSession(op, studentId) ==
  /\ session # NoSession
  /\ LET status == ensureStudentInFamilySession(session, studentId)
     IN  resp' = [NoResp EXCEPT !.op = op, !.build = "session", !.target = studentId,
                    !.status = status, !.message = ensureStudentInFamilyMessage(status)]
  /\ UNCHANGED <<mailVars, acctVars, users, session, notifications, contentVars, billVars>>

\* GET /api/notifications
GetNotifications ==
  /\ session # NoSession
  /\ IF getFamilyMemberIdsThrows(session)
     THEN resp' = [NoResp EXCEPT !.op = "notifications", !.build = "token", !.status = 500,
                     !.message = "Server error fetching notifications."]
     ELSE LET familyIds == getFamilyMemberIds(session)
          IN  resp' = [NoResp EXCEPT !.op = "notifications", !.build = "token",
                         !.status = 200, !.family = familyIds,
                         !.ids = {i \in DOMAIN notifications :
                                    notifications[i].userId \in familyIds}]
  /\ UNCHANGED <<mailVars, acctVars, users, session, notifications, contentVars, billVars>>

GetNotificationsSession ==
  /\ session # NoSession
  /\ IF getFamilyMemberIdsSessionThrows(session)
     THEN resp' = [NoResp EXCEPT !.op = "notifications", !.build = "session", !.status = 500,
                     !.message = "Server error fetching notifications."]
     ELSE LET ids == getFamilyMemberIdsSession(session)
          IN  resp' = [NoResp EXCEPT !.op = "notifications", !.build = "session",
                         !.status = 200, !.family = ids,
                         !.ids = {i \in DOMAIN notifications :
                                    notifications[i].userId \in ids}]
  /\ UNCHANGED <<mailVars, acctVars, users, session, notifications, contentVars, billVars>>

\* PUT /api/notifications/:id/read, token build: getFamilyMemberIds, then one
\* findOneAndUpdate on { _id, userId: { $in: familyIds } }.  What the handler
\* answers, and whether it sets the flag.
putNotificationRead(sessionUser, n) ==
  IF getFamilyMemberIdsThrows(sessionUser)
  THEN [status |-> 500, message |-> "Server error updating notification.",
        family |-> {}, marks |-> FALSE]
  ELSE LET familyIds == getFamilyMemberIds(sessionUser)
           found     == n \in DOMAIN notifications /\ notifications[n].userId \in familyIds
       IN  IF found
           THEN [status |-> 200, message |-> "", family |-> familyIds, marks |-> TRUE]
           ELSE [status |-> 404, message |-> "Notification not found or not permitted.",
                 family |-> familyIds, marks |-> FALSE]

\* Session build: findById, 404 when there is none, then getFamilyMemberIds and
\* the includes test, 403 when it fails.
putNotificationReadSession(sessionUser, n) ==
  IF n \notin DOMAIN notifications
  THEN [status |-> 404, message |-> "Notification not found.", family |-> {}, marks |-> FALSE]
  ELSE IF getFamilyMemberIdsSessionThrows(sessionUser)
  THEN [status |-> 500, message |-> "Server error updating notification.",
        family |-> {}, marks |-> FALSE]
  ELSE LET ids == getFamilyMemberIdsSession(sessionUser)
       IN  IF notifications[n].userId \in ids
           THEN [status |-> 200, message |-> "", family |-> ids, marks |-> TRUE]
           ELSE [status |-> 403, message |-> "Forbidden", family |-> ids, marks |-> FALSE]

PutNotificationReadUnscoped(n) ==
  /\ session # NoSession
  /\ n \in DOMAIN notifications
  /\ notifications' = [notifications EXCEPT ![n].read = TRUE]
  /\ resp' = [NoResp EXCEPT !.op = "read", !.build = "token", !.nid = n, !.status = 200,
                            !.family = getFamilyMemberIds(session)]
  /\ UNCHANGED <<mailVars, acctVars, users, session, contentVars, billVars>>

PutNotificationRead(n) ==
  /\ session # NoSession
  /\ LET r == putNotificationRead(session, n)
     IN  /\ notifications' = IF r.marks THEN [notifications EXCEPT ![n].read = TRUE]
                                        ELSE notifications
         /\ resp' = [NoResp EXCEPT !.op = "read", !.build = "token", !.nid = n,
                       !.family = r.family, !.status = r.status, !.message = r.message]
  /\ UNCHANGED <<mailVars, acctVars, users, session, contentVars, billVars>>

PutNotificationReadSession(n) ==
  /\ session # NoSession
  /\ LET r == putNotificationReadSession(session, n)
     IN  /\ notifications' = IF r.marks THEN [notifications EXCEPT ![n].read = TRUE]
                                        ELSE notifications
         /\ resp' = [NoResp EXCEPT !.op = "read", !.build = "session", !.nid = n,
                       !.family = r.family, !.status = r.status, !.message = r.message]
  /\ UNCHANGED <<mailVars, acctVars, users, session, contentVars, billVars>>

(***************************************************************************)
(* The family specification: the resolver and the guard applied to every   *)
(* store drawn below, under every login the store allows.                  *)
(***************************************************************************)
InitFamily ==
  /\ \E e1 \in Emails, e2 \in Emails, e3 \in {E_p, E_t}, r3 \in {"Teacher", "Admin"} :
       /\ e1 # e2 /\ e1 # e3 /\ e2 # e3      \* the unique index on email
       /\ users = [u \in UserIds |->
                     CASE u = "u1" -> Doc(e1, "Student")
                       [] u = "u2" -> Doc(e2, "Student")
                       [] u = "u3" -> Doc(e3, r3)]
  /\ session = NoSession
  /\ resp = NoResp
  /\ notifications = <<Note("u1", "s1", "m1"), Note("u2", "s1", "m1")>>
  /\ content = [c \in ContentIds |-> [present |-> FALSE, kind |-> "Event", recipientIds |-> <<>>]]
  /\ tx = IdleTx /\ sendResp = NoSendResp
  /\ mailTransporter = FALSE /\ outbox = {}
  /\ reg = IdleReg /\ acct = NoAcct
  /\ feeStructures = [f \in FeeIds |-> [Fee("", 0, "", "") EXCEPT !.present = FALSE]]
  /\ invoices = <<>> /\ clock = 0
  /\ runs = [r \in RunIds |-> IdleRun] /\ genHist = <<>>

\* The invoices route and the enrollments route run the same guard and answer
\* in the same way; the requests are drawn from the first.
FamilyOps == {"invoices"}

NextFamily ==
  \/ \E e \in Emails \cup {E_t} : Login(e)
  \/ SoftDeleteUser("u2")
  \/ RestoreUser("u2")
  \/ \E op \in FamilyOps, t \in UserIds \cup {NoUser} : GetFamilyStudentData(op, t)
  \/ \E op \in FamilyOps, t \in UserIds \cup {NoUser} : GetFamilyStudentDataSession(op, t)
  \/ GetNotifications
  \/ GetNotificationsSession
  \/ \E n \in 1..3 : PutNotificationRead(n)
  \/ \E n \in 1..3 : PutNotificationReadSession(n)

SpecFamily == InitFamily /\ [][NextFamily]_vars

(***************************************************************************)
(* Claims on the family resolver and the access guard                      *)
(***************************************************************************)
\* The identity the specification keys a family by: the email in lower case,
\* its local part up to the first "+", and its domain.
NormalizedIdentity(email) ==
  LET parts == split(toLowerCase(email), "@")
  IN  [local  |-> split(parts[1], "+")[1],
       domain |-> IF Len(parts) >= 2 THEN parts[2] ELSE <<>>]

\* The family the specification describes for a Student principal.
SpecifiedFamily(sessionUser) ==
  {sessionUser.id} \cup
  {u \in UserIds : /\ users[u].present
                   /\ ~users[u].isDeleted
                   /\ users[u].role = "Student"
                   /\ NormalizedIdentity(users[u].email) = NormalizedIdentity(sessionUser.email)}

\* C7: the family resolved for a request is exactly {principal.id} for a Teacher,
\* and for a Student exactly the principal's id with the ids of the non-deleted
\* Student accounts of the same normalized identity.
C7_FamilyIsExactlyTheNormalizedGroup ==
  (resp.op = "notifications" /\ session.role \in {"Teacher", "Student"}) =>
     resp.family = IF session.role = "Teacher" THEN {session.id}
                   ELSE SpecifiedFamily(session)

\* Two Student accounts the specification holds to be unrelated.
Unrelated(sessionUser, b) ==
  /\ sessionUser.role = "Student"
  /\ b \in UserIds /\ users[b].present /\ users[b].role = "Student"
  /\ NormalizedIdentity(sessionUser.email) # NormalizedIdentity(users[b].email)

\* C8: a request by Student A for the invoices, the enrollments or the
\* notifications of an unrelated Student B is denied.
C8_UnrelatedStudentIsDenied ==
  /\ (resp.op \in FamilyOps /\ Unrelated(session, resp.target)) => resp.status # 200
  /\ (resp.op = "read" /\ resp.nid \in DOMAIN notifications
        /\ Unrelated(session, notifications[resp.nid].userId)) => resp.status # 200
  /\ resp.op = "notifications" =>
        \A i \in resp.ids : ~Unrelated(session, notifications[i].userId)

\* C9: ensureStudentInFamily lets a non-admin principal through exactly when the
\* target id is in the family getFamilyMemberIds resolves for the principal.
C9_GuardAgreesWithResolver ==
  (resp.op \in FamilyOps /\ session.role # "Admin") =>
     (resp.status = 200 <=> resp.target \in getFamilyMemberIds(session))

\* C10: an Admin principal is allowed on every account-scoped request: any
\* Student's invoices and enrollments, and marking any notification read.
C10_AdminIsAlwaysAllowed ==
  session.role = "Admin" =>
     /\ (resp.op \in FamilyOps /\ resp.target \in UserIds
           /\ users[resp.target].role = "Student") => resp.status = 200
     /\ (resp.op = "read" /\ resp.nid \in DOMAIN notifications) => resp.status = 200

\* The family the resolver of the given build returns for the principal, empty
\* when the call throws.
ResolvedFamily(build, sessionUser) ==
  IF build = "session"
  THEN IF getFamilyMemberIdsSessionThrows(sessionUser) THEN {}
       ELSE getFamilyMemberIdsSession(sessionUser)
  ELSE IF getFamilyMemberIdsThrows(sessionUser) THEN {}
       ELSE getFamilyMemberIds(sessionUser)

\* C11: a step sets a Notification's read flag only as the answer to a read
\* request for it by a principal whose resolved family holds its recipient; a
\* read request for a Notification whose recipient is outside that family is
\* not answered with success and leaves the Notification collection as it is.
C11_ReadOnlyWithinFamily ==
  [][\A n \in DOMAIN notifications :
       /\ notifications'[n] # notifications[n] =>
             /\ resp'.op = "read" /\ resp'.nid = n
             /\ notifications[n].userId \in ResolvedFamily(resp'.build, session)
             /\ notifications'[n] = [notifications[n] EXCEPT !.read = TRUE]
       /\ (resp'.op = "read" /\ resp'.nid = n
             /\ notifications[n].userId \notin ResolvedFamily(resp'.build, session)) =>
             /\ resp'.status \notin {0, 200}
             /\ notifications' = notifications]_vars

C11_Witness ==
  /\ resp.op = "read" /\ resp.nid \in DOMAIN notifications
  /\ notifications[resp.nid].userId \notin ResolvedFamily(resp.build, session)
  /\ resp.status \in {403, 404}
  /\ ~notifications[resp.nid].read
  /\ \E m \in DOMAIN notifications : notifications[m].read

\* An id no Notification has.
MissingNotification == Len(notifications) + 1

\* C12: to a non-admin principal, the answer for an existing target outside the
\* principal's family has the status and the message of the answer for a target
\* that does not exist.
C12_DenialHidesExistence ==
  session.role # "Admin" =>
     /\ (resp.op \in FamilyOps /\ resp.target \in UserIds /\ users[resp.target].present
           /\ resp.target \notin ResolvedFamily(resp.build, session)) =>
           LET missing == IF resp.build = "session"
                          THEN ensureStudentInFamilySession(session, NoUser)
                          ELSE ensureStudentInFamily(session, NoUser)
           IN  /\ resp.status = missing
               /\ resp.message = ensureStudentInFamilyMessage(missing)
     /\ (resp.op = "read" /\ resp.nid \in DOMAIN notifications
           /\ notifications[resp.nid].userId \notin ResolvedFamily(resp.build, session)) =>
           LET missing == IF resp.build = "session"
                          THEN putNotificationReadSession(session, MissingNotification)
                          ELSE putNotificationRead(session, MissingNotification)
           IN  /\ resp.status = missing.status
               /\ resp.message = missing.message

\* The tags tried, and the spellings of one address they give: user@domain
\* and user+tag@domain.
Tags == {<<"c">>, <<"d">>, <<"C">>, <<"c", "+", "d">>}
Untagged(email) ==
  LET parts == split(email, "@")
  IN  split(parts[1], "+")[1] \o <<"@">> \o parts[2]
Tagged(email, tag) ==
  LET parts == split(email, "@")
  IN  split(parts[1], "+")[1] \o <<"+">> \o tag \o <<"@">> \o parts[2]
Spellings(email) == {Untagged(email)} \cup {Tagged(email, t) : t \in Tags}

\* What the resolver of the build does for a principal: it throws, or the set.
ResolverOutcome(build, sessionUser) ==
  LET throws == IF build = "session" THEN getFamilyMemberIdsSessionThrows(sessionUser)
                ELSE getFamilyMemberIdsThrows(sessionUser)
  IN  [status |-> IF throws THEN 500 ELSE 200, family |-> ResolvedFamily(build, sessionUser)]

\* C13: over one store, the family resolved for a principal is the family
\* resolved for the principal of the same id and role under every other
\* spelling user@domain, user+tag@domain of its email.
C13_FamilyIgnoresTheTagOfThePrincipal ==
  (resp.op = "notifications" /\ Len(split(session.email, "@")) = 2) =>
     \A v \in Spellings(session.email) :
        ResolverOutcome(resp.build, [session EXCEPT !.email = v])
          = [status |-> resp.status, family |-> resp.family]

C13_Witness ==
  /\ resp.op = "notifications" /\ resp.status = 200
  /\ session.role = "Student" /\ session.email = E_pc
  /\ \E u \in resp.family : u # session.id /\ users[u].email = E_p

\* C14: for every principal the resolver returns, and what it returns holds
\* the principal's id.
C14_FamilyHoldsThePrincipal ==
  resp.op = "notifications" =>
     /\ resp.status = 200
     /\ session.id \in resp.family

(***************************************************************************)
(* The content specification: one administrator sending content while      *)
(* accounts are trashed and restored and the content item is deleted.      *)
(***************************************************************************)
InitContent ==
  /\ users = [u \in UserIds |->
                CASE u = "u1" -> Doc(E_p, "Student")
                  [] u = "u2" -> Doc(E_pc, "Student")
                  [] u = "u3" -> Doc(E_t, "Teacher")]
  /\ session = NoSession
  /\ resp = NoResp
  /\ notifications = <<>>
  /\ content = [c \in ContentIds |-> [present |-> TRUE, kind |-> "Event", recipientIds |-> <<>>]]
  /\ tx = IdleTx /\ sendResp = NoSendResp
  /\ mailTransporter = FALSE /\ outbox = {}
  /\ reg = IdleReg /\ acct = NoAcct
  /\ feeStructures = [f \in FeeIds |-> [Fee("", 0, "", "") EXCEPT !.present = FALSE]]
  /\ invoices = <<>> /\ clock = 0
  /\ runs = [r \in RunIds |-> IdleRun] /\ genHist = <<>>

\* The requests the administrator sends.
SendTargets   == {<<"c1", "Event">>, <<"c1", "Notice">>, <<"c1", "Survey">>, <<NoContent, "Event">>}
SendRecipients == {<<>>, <<"u1">>, <<"u2">>, <<"u1", "u2">>, <<"u1", "u1">>,
                   <<NoUser>>, <<"u1", NoUser>>}
SendRequests ==
  {[contentId |-> t[1], contentType |-> t[2], userIds |-> r,
    subject |-> "s1", message |-> "m1"] : t \in SendTargets, r \in SendRecipients}

\* The bodies the administrator creates and updates content with, as far as
\* recipientIds goes.
ContentBodies ==
  {[hasRecipientIds |-> FALSE, recipientIds |-> <<>>]} \cup
  {[hasRecipientIds |-> TRUE, recipientIds |-> r] : r \in {<<>>, <<"u1">>, <<"u1", "u1">>}}

NextContent ==
  \/ \E a \in SendRequests : SendBegin(a)
  \/ \E b \in ContentBodies : CreateContent("c1", "Event", b)
  \/ \E b \in ContentBodies : UpdateContent("c1", "Event", b)
  \/ SendUpdate
  \/ SendInsert
  \/ SendCommit
  \/ SendFail
  \/ DeleteContent("c1")
  \/ SoftDeleteUser("u2")
  \/ RestoreUser("u2")

SpecContent == InitContent /\ [][NextContent]_vars

C4_OneNotificationPerLiveRecipient ==
  sendResp.status = 200 =>
     /\ \A id \in Range(sendResp.args.userIds) :
           CountFor(sendResp.made, id) = IF id \in sendResp.liveIds THEN 1 ELSE 0
     /\ \A i \in DOMAIN sendResp.made :
           /\ sendResp.made[i].userId \in Range(sendResp.args.userIds)
           /\ sendResp.made[i].subject = sendResp.args.subject
           /\ sendResp.made[i].message = sendResp.args.message

\* C5: every step of a send but its commit leaves the content collections and
\* the Notification collection as they are, and the commit applies the
\* recipient update and the Notification inserts together; so a send that
\* fails at any step leaves neither behind.
SendStep   == tx'.pc # tx.pc
CommitStep == tx.pc = "commit" /\ sendResp'.status = 200
C5_AssignIsAtomic ==
  [][SendStep =>
       IF CommitStep
       THEN /\ notifications' = notifications \o tx.notes
            /\ tx.updated =>
                  /\ content'[tx.args.contentId].recipientIds = tx.recipients
                  /\ Range(tx.args.userIds) \subseteq Range(tx.recipients)
       ELSE /\ content' = content
            /\ notifications' = notifications]_vars

C5_Witness ==
  /\ sendResp.status = 500 /\ sendResp.failedAt = "commit"
  /\ sendResp.args.contentId = "c1" /\ sendResp.args.contentType = "Event"
  /\ sendResp.args.userIds = <<"u1", "u2">>
  /\ content["c1"].present /\ content["c1"].recipientIds = <<>>
  /\ notifications = <<>>

\* C15: the recipient list of every content item holds no account id twice.
C15_RecipientListHasNoDuplicate ==
  \A c \in ContentIds :
     content[c].present =>
        \A i \in DOMAIN content[c].recipientIds, j \in DOMAIN content[c].recipientIds :
           content[c].recipientIds[i] = content[c].recipientIds[j] => i = j

\* C16: every step that does not delete a content item leaves in its recipient
\* list every account id the list held before.
C16_RecipientListOnlyGrows ==
  [][\A c \in ContentIds :
       (content[c].present /\ content'[c].present) =>
          Range(content[c].recipientIds) \subseteq Range(content'[c].recipientIds)]_vars

\* C6: a send whose content id names no content item of the given type fails,
\* and creates no Notification.
C6_MissingContentFailsWithoutNotifications ==
  (sendResp.status \notin {0, 400} /\ ~sendResp.updated) =>
     /\ sendResp.status # 200
     /\ sendResp.made = <<>>

(***************************************************************************)
(* The billing specification: two generate requests in flight at once,     *)
(* the month changing, a student being trashed and restored.               *)
(***************************************************************************)
InitBilling ==
  /\ \E c2 \in {<<>>, <<"Vocal">>, <<"Vocal", "Veena">>}, cycle \in {"Monthly", "Quarterly"} :
       /\ users = [u \in UserIds |->
                     CASE u = "u1" -> [Doc(E_p, "Student") EXCEPT !.courses = <<"Vocal">>]
                       [] u = "u2" -> [Doc(E_pc, "Student") EXCEPT !.courses = c2]
                       [] u = "u3" -> Doc(E_t, "Teacher")]
       /\ feeStructures = [f \in FeeIds |->
                             IF f = "f1" THEN Fee("Vocal", 500, "INR", "Monthly")
                                         ELSE Fee("Veena", 700, "INR", cycle)]
  /\ session = NoSession
  /\ resp = NoResp
  /\ notifications = <<>>
  /\ content = [c \in ContentIds |-> [present |-> FALSE, kind |-> "Event", recipientIds |-> <<>>]]
  /\ tx = IdleTx /\ sendResp = NoSendResp
  /\ mailTransporter = FALSE /\ outbox = {}
  /\ reg = IdleReg /\ acct = NoAcct
  /\ invoices = <<>>
  /\ clock = 2
  /\ runs = [r \in RunIds |-> IdleRun]
  /\ genHist = <<>>

NextBilling ==
  \/ \E r \in RunIds : GenLoadFees(r)
  \/ \E r \in RunIds : GenLoadStudents(r)
  \/ \E r \in RunIds : GenCheck(r)
  \/ \E r \in RunIds : GenSaveLands(r)
  \/ \E r \in RunIds : GenFinish(r)
  \/ Tick
  \/ SoftDeleteUser("u2")
  \/ RestoreUser("u2")

SpecBilling == InitBilling /\ [][NextBilling]_vars

(***************************************************************************)
(* The fee specification: one generate request at a time while the         *)
(* administrator updates and deletes the fee structure of a course and the *)
(* month changes.                                                          *)
(***************************************************************************)
InitFees ==
  /\ users = [u \in UserIds |->
                CASE u = "u1" -> [Doc(E_p, "Student") EXCEPT !.courses = <<"Vocal">>]
                  [] u = "u2" -> [Doc(E_pc, "Student") EXCEPT !.courses = <<"Vocal", "Veena">>]
                  [] u = "u3" -> Doc(E_t, "Teacher")]
  /\ feeStructures = [f \in FeeIds |->
                        IF f = "f1" THEN Fee("Vocal", 500, "INR", "Monthly")
                                    ELSE Fee("Veena", 700, "INR", "Quarterly")]
  /\ session = NoSession
  /\ resp = NoResp
  /\ notifications = <<>>
  /\ content = [c \in ContentIds |-> [present |-> FALSE, kind |-> "Event", recipientIds |-> <<>>]]
  /\ tx = IdleTx /\ sendResp = NoSendResp
  /\ mailTransporter = FALSE /\ outbox = {}
  /\ reg = IdleReg /\ acct = NoAcct
  /\ invoices = <<>>
  /\ clock = 2
  /\ runs = [r \in RunIds |-> IdleRun]
  /\ genHist = <<>>

\* The bodies the administrator updates a fee structure with.
FeeBodies ==
  {[amount |-> 600, currency |-> "USD", courseName |-> "Flute"],
   [billingCycle |-> "Quarterly"],
   [courseName |-> "Veena"]}

\* The payment details the administrator records.
PaymentBodies == {"d1", "d2"}

NextFees ==
  \/ \E b \in FeeBodies : UpdateFee("f1", b)
  \/ DeleteFee("f1")
  \/ \E k \in 1..2, d \in PaymentBodies : PayInvoice(k, d)
  \/ SoftDeleteUser("u2")
  \/ RestoreUser("u2")
  \/ GenLoadFees(1)
  \/ GenLoadStudents(1)
  \/ GenCheck(1)
  \/ GenSaveLands(1)
  \/ GenFinish(1)
  \/ Tick

SpecFees == InitFees /\ [][NextFees]_vars

(***************************************************************************)
(* The repeated-course specification: the billing requests over a student  *)
(* whose course list names one course twice.                               *)
(***************************************************************************)
InitRepeatedCourse ==
  /\ users = [u \in UserIds |->
                CASE u = "u1" -> [Doc(E_p, "Student") EXCEPT !.courses = <<"Vocal", "Vocal">>]
                  [] u = "u2" -> [Doc(E_pc, "Student") EXCEPT !.courses = <<"Veena">>]
                  [] u = "u3" -> Doc(E_t, "Teacher")]
  /\ feeStructures = [f \in FeeIds |->
                        IF f = "f1" THEN Fee("Vocal", 500, "INR", "Monthly")
                                    ELSE Fee("Veena", 700, "INR", "Monthly")]
  /\ session = NoSession
  /\ resp = NoResp
  /\ notifications = <<>>
  /\ content = [c \in ContentIds |-> [present |-> FALSE, kind |-> "Event", recipientIds |-> <<>>]]
  /\ tx = IdleTx /\ sendResp = NoSendResp
  /\ mailTransporter = FALSE /\ outbox = {}
  /\ reg = IdleReg /\ acct = NoAcct
  /\ invoices = <<>>
  /\ clock = 2
  /\ runs = [r \in RunIds |-> IdleRun]
  /\ genHist = <<>>

SpecRepeatedCourse == InitRepeatedCourse /\ [][NextBilling]_vars

(***************************************************************************)
(* Claims on the Billing Cycle Engine                                      *)
(***************************************************************************)
\* C1: in every reachable state, two generate requests interleaved included, no
\* two invoices share student, fee structure and billing period.
C1_AtMostOneInvoicePerTriple ==
  \A a \in DOMAIN invoices, b \in DOMAIN invoices :
     (/\ invoices[a].studentId = invoices[b].studentId
      /\ invoices[a].feeStructureId = invoices[b].feeStructureId
      /\ invoices[a].billingPeriod = invoices[b].billingPeriod) => a = b

\* The (student, fee structure) pairs due an invoice: a non-deleted Student and a
\* course of its list whose fee structure is Monthly.
DueNow ==
  {<<u, f>> \in UserIds \X FeeIds :
     /\ users[u].present /\ users[u].role = "Student" /\ ~users[u].isDeleted
     /\ \E k \in DOMAIN users[u].courses : structuresMap(feeStructures, users[u].courses[k]) = f
     /\ feeStructures[f].billingCycle = "Monthly"}

\* C2: of two runs completed one after the other in one billing period, nothing
\* else written from the start of the first to the end of the second, the first
\* leaves an invoice of the period for every pair due one and the second
\* creates none and reports 0.
C2_SecondRunCreatesNothing ==
  /\ genHist # <<>> =>
        \A p \in DueNow : \E k \in DOMAIN invoices :
           /\ invoices[k].studentId = p[1]
           /\ invoices[k].feeStructureId = p[2]
           /\ invoices[k].billingPeriod = BillingPeriod(clock)
  /\ Len(genHist) = 2 => genHist[2] = 0

C2_Witness ==
  /\ Len(genHist) = 2 /\ genHist[1] = 3 /\ genHist[2] = 0
  /\ Len(invoices) = 3

\* The step in which run r creates an invoice, and the invoice.
Creates(r) == Len(runs'[r].made) = Len(runs[r].made) + 1
Created(r) == runs'[r].made[Len(runs'[r].made)]

\* C17: a run creates an invoice only for a Student document it read as not
\* deleted and with a course list that is not empty.
C17_NoInvoiceForDeletedStudent ==
  [][\A r \in RunIds :
       Creates(r) =>
          LET student == runs[r].students[runs[r].i]
          IN  /\ Created(r).studentId = student.id
              /\ ~student.isDeleted
              /\ student.courses # <<>>]_vars

CompleteAlone(r) ==
  /\ runs[r].clean
  /\ runs[r].pc = "loop"
  /\ runs[r].i > Len(runs[r].students)
  /\ runs[r].pending = <<>>

\* The invoices of a sequence for a student, a fee structure and a period.
InvoicesOf(seq, u, f, period) ==
  {k \in DOMAIN seq : /\ seq[k].studentId = u
                      /\ seq[k].feeStructureId = f
                      /\ seq[k].billingPeriod = period}

C20_IssuedInvoicesKeepTheirSnapshot ==
  [][feeStructures' # feeStructures =>
       /\ DOMAIN invoices' = DOMAIN invoices
       /\ \A k \in DOMAIN invoices :
             /\ invoices'[k].amount = invoices[k].amount
             /\ invoices'[k].currency = invoices[k].currency
             /\ invoices'[k].courseName = invoices[k].courseName]_vars

C20_Witness ==
  /\ \E k \in DOMAIN invoices :
        /\ invoices[k].feeStructureId = "f1"
        /\ invoices[k].amount = 500 /\ invoices[k].currency = "INR"
        /\ invoices[k].courseName = "Vocal"
  /\ feeStructures["f1"].present
  /\ feeStructures["f1"].amount = 600 /\ feeStructures["f1"].courseName = "Flute"

\* C21: an invoice enters the collection Pending; a step changes an invoice's
\* status only from Pending to Paid, recording payment details; and no step
\* removes an invoice.  So a Paid invoice stays Paid.
C21_PaidIsFinal ==
  [][/\ \A k \in DOMAIN invoices :
          /\ k \in DOMAIN invoices'
          /\ invoices[k].status = "Paid" => invoices'[k].status = "Paid"
          /\ invoices'[k].status # invoices[k].status =>
                /\ invoices[k].status = "Pending" /\ invoices'[k].status = "Paid"
                /\ invoices'[k].paymentDetails \in PaymentBodies
     /\ \A k \in DOMAIN invoices' \ DOMAIN invoices : invoices'[k].status = "Pending"]_vars

C21_Witness ==
  /\ Len(invoices) >= 2
  /\ invoices[1].status = "Paid" /\ invoices[1].paymentDetails = "d2"
  /\ invoices[1].billingPeriod = BillingPeriod(2)
  /\ \E k \in DOMAIN invoices : /\ invoices[k].billingPeriod = BillingPeriod(3)
                                /\ invoices[k].status = "Pending"
  /\ feeStructures["f1"].amount = 600

\* C29: a run that no other run overlaps creates at most one invoice for a
\* student and a fee structure.
C29_OneInvoicePerCourseInARun ==
  \A r \in RunIds :
     runs[r].clean =>
        \A a \in DOMAIN runs[r].made, b \in DOMAIN runs[r].made :
           (/\ runs[r].made[a].studentId = runs[r].made[b].studentId
            /\ runs[r].made[a].feeStructureId = runs[r].made[b].feeStructureId) => a = b


(***************************************************************************)
(* Accounts: registration, the administrator's user routes, the profile.   *)
(***************************************************************************)
Absent == [Doc(<<>>, "None") EXCEPT !.present = FALSE]

\* The _id of a new document: one that no stored or buffered document has.
FreeIds == {u \in UserIds : ~users[u].present /\ u \notin {reg.saved[i].id : i \in DOMAIN reg.saved}}
NewUserId == SelectSeq(UserOrder, LAMBDA u : u \in FreeIds)[1]

\* User.findOne({ email, _id: { $ne: id } }): the stored string, compared as it is.
findOneEmail(email, id) ==
  \E u \in UserIds \ {id} : users[u].present /\ users[u].email = email

\* The emails written inside the running registration transaction.
Buffered == {reg.saved[i].doc.email : i \in DOMAIN reg.saved}

\* POST /api/register up to the loop: the checks of the request, the lookup of
\* the registered emails and of the administrator, inside the transaction.
RegisterBegin(build, usersData) ==
  /\ reg.pc = "idle"
  /\ Len(notifications) + Len(usersData) <= MaxNotifications
  /\ LET emailsInRequest == [i \in DOMAIN usersData |-> toLowerCase(usersData[i].email)]
         existingUsers   == {u \in UserIds : users[u].present
                                              /\ users[u].email \in Range(emailsInRequest)}
         admins          == SelectSeq(UserOrder,
                                      LAMBDA u : users[u].present /\ users[u].role = "Admin")
     IN  IF \/ usersData = <<>>
            \/ Cardinality(Range(emailsInRequest)) # Len(emailsInRequest)
            \/ existingUsers # {}
         THEN /\ reg' = IdleReg
              /\ acct' = [NoAcct EXCEPT !.op = "register", !.status = 500]
         ELSE /\ reg' = [IdleReg EXCEPT !.pc = "loop", !.build = build,
                           !.usersData = usersData,
                           !.adminUser = IF admins = <<>> THEN NoUser ELSE admins[1]]
              /\ acct' = NoAcct
  /\ UNCHANGED <<mailVars, users, famVars, notifications, contentVars, billVars>>

\* The Notification and the mail of one registered user.  server.js (token):
\* both for a Student; server.js (session): the mail for a Student, the
\* Notification for every user; api/register.js: the Notification for a
\* Student, no mail.
RegisterNotifies(build, role) ==
  /\ reg.adminUser # NoUser
  /\ build = "session" \/ role = "Student"

RegisterMails(build, role) ==
  /\ reg.adminUser # NoUser
  /\ build \in {"token", "session"}
  /\ role = "Student"

\* Writes of the transaction land outside it: the variant without a session.
RegisterUserOutsideSession ==
  /\ reg.pc = "loop"
  /\ reg.k <= Len(reg.usersData)
  /\ reg.usersData[reg.k].password
  /\ FreeIds # {}
  /\ users' = [users EXCEPT ![NewUserId] =
                 Doc(toLowerCase(reg.usersData[reg.k].email), reg.usersData[reg.k].role)]
  /\ reg' = [reg EXCEPT !.k = reg.k + 1]
  /\ UNCHANGED <<mailVars, acct, famVars, notifications, contentVars, billVars>>

\* One round of the loop: the password, user.save({ session }), the
\* Notification saved in the session and the mail handed over.
RegisterUser ==
  /\ reg.pc = "loop"
  /\ reg.k <= Len(reg.usersData)
  /\ LET userData == reg.usersData[reg.k]
         email    == toLowerCase(userData.email)
     IN  IF ~userData.password
         THEN /\ reg' = IdleReg
              /\ acct' = [NoAcct EXCEPT !.op = "register", !.status = 500,
                            !.saved = Len(reg.saved)]
              /\ outbox' = Close("register", "aborted")
         ELSE IF findOneEmail(email, NoUser)
         THEN /\ reg' = IdleReg
              /\ acct' = [NoAcct EXCEPT !.op = "register", !.status = 409,
                            !.saved = Len(reg.saved)]
              /\ outbox' = Close("register", "aborted")
         ELSE /\ FreeIds # {}
              /\ reg' = [reg EXCEPT
                   !.k = reg.k + 1,
                   !.saved = Append(reg.saved,
                                    [id |-> NewUserId, doc |-> Doc(email, userData.role)]),
                   !.notes = IF RegisterNotifies(reg.build, userData.role)
                             THEN Append(reg.notes, Note(reg.adminUser, "s1", "m1"))
                             ELSE reg.notes]
              /\ acct' = acct
              /\ outbox' = IF RegisterMails(reg.build, userData.role)
                           THEN sendMail({reg.adminUser}, "register")
                           ELSE outbox
  /\ Cardinality(outbox') <= MaxMails
  /\ UNCHANGED <<mailTransporter, users, famVars, notifications, contentVars, billVars>>

\* await dbSession.commitTransaction(); res.status(201)
RegisterCommit ==
  /\ reg.pc = "loop"
  /\ reg.k > Len(reg.usersData)
  /\ users' = [u \in UserIds |->
                 IF \E i \in DOMAIN reg.saved : reg.saved[i].id = u
                 THEN reg.saved[CHOOSE i \in DOMAIN reg.saved : reg.saved[i].id = u].doc
                 ELSE users[u]]
  /\ notifications' = notifications \o reg.notes
  /\ outbox' = Close("register", "committed")
  /\ acct' = [NoAcct EXCEPT !.op = "register", !.status = 201, !.saved = Len(reg.saved)]
  /\ reg' = IdleReg
  /\ resp' = NoResp
  /\ UNCHANGED <<mailTransporter, session, contentVars, billVars>>

\* An awaited call of the handler rejects (the store is unreachable):
\* catch, abortTransaction, 500.
RegisterFail ==
  /\ reg.pc = "loop"
  /\ reg' = IdleReg
  /\ acct' = [NoAcct EXCEPT !.op = "register", !.status = 500, !.saved = Len(reg.saved)]
  /\ outbox' = Close("register", "aborted")
  /\ UNCHANGED <<mailTransporter, users, famVars, notifications, contentVars, billVars>>

\* POST /api/admin/register
AdminRegister(email) ==
  /\ toLowerCase(email) \notin Buffered
  /\ IF findOneEmail(toLowerCase(email), NoUser)
     THEN /\ acct' = [NoAcct EXCEPT !.op = "adminRegister", !.status = 409]
          /\ users' = users
     ELSE /\ FreeIds # {}
          /\ users' = [users EXCEPT ![NewUserId] = Doc(toLowerCase(email), "Admin")]
          /\ acct' = [NoAcct EXCEPT !.op = "adminRegister", !.status = 201]
  /\ resp' = NoResp
  /\ UNCHANGED <<mailVars, reg, session, notifications, contentVars, billVars>>

\* POST /api/admin/users: the lookup takes the lower-cased email, the document
\* keeps the email of the body; the unique index answers with code 11000.
AdminCreateUser(userData) ==
  /\ userData.email \notin Buffered
  /\ IF \/ findOneEmail(toLowerCase(userData.email), NoUser)
        \/ findOneEmail(userData.email, NoUser)
     THEN /\ acct' = [NoAcct EXCEPT !.op = "adminCreate", !.status = 409]
          /\ users' = users
     ELSE /\ FreeIds # {}
          /\ users' = [users EXCEPT ![NewUserId] = Doc(userData.email, userData.role)]
          /\ acct' = [NoAcct EXCEPT !.op = "adminCreate", !.status = 201]
  /\ resp' = NoResp
  /\ UNCHANGED <<mailVars, reg, session, notifications, contentVars, billVars>>

\* PUT /api/admin/users/:id; a field the body does not carry is "" or <<>>.
AdminUpdateUser(id, updateData) ==
  /\ updateData.email \notin Buffered
  /\ IF updateData.email # <<>>
        /\ \/ findOneEmail(toLowerCase(updateData.email), id)
           \/ users[id].present /\ findOneEmail(updateData.email, id)
     THEN /\ acct' = [NoAcct EXCEPT !.op = "adminUpdate", !.status = 409]
          /\ users' = users
     ELSE IF ~users[id].present
     THEN /\ acct' = [NoAcct EXCEPT !.op = "adminUpdate", !.status = 404]
          /\ users' = users
     ELSE /\ users' = [users EXCEPT
                 ![id].email = IF updateData.email # <<>> THEN updateData.email ELSE @,
                 ![id].role  = IF updateData.role # "" THEN updateData.role ELSE @]
          /\ acct' = [NoAcct EXCEPT !.op = "adminUpdate", !.status = 200]
  /\ resp' = NoResp
  /\ UNCHANGED <<mailVars, reg, session, notifications, contentVars, billVars>>

\* DELETE /api/admin/users/:id/permanent: User.findByIdAndDelete(req.params.id)
PermanentDeleteUser(id) ==
  /\ IF users[id].present
     THEN /\ users' = [users EXCEPT ![id] = Absent]
          /\ acct' = [NoAcct EXCEPT !.op = "permanent", !.status = 204]
     ELSE /\ users' = users
          /\ acct' = [NoAcct EXCEPT !.op = "permanent", !.status = 404]
  /\ resp' = NoResp
  /\ UNCHANGED <<mailVars, reg, session, notifications, contentVars, billVars>>

\* PUT /api/profile.  server.js drops password, role and email from the body
\* and updates updateData.id || userId; the session build then refreshes
\* req.session.user when the account is the principal's own.  The handler of
\* part_003 drops the password only and updates session.user.id.
ProfileUpdate(build, body) ==
  /\ session # NoSession
  /\ LET idToUpdate == IF build # "public" /\ body.id # "" THEN body.id ELSE session.id
         role       == IF build = "public" /\ body.role # "" THEN body.role
                       ELSE users[idToUpdate].role
         updated    == [users[idToUpdate] EXCEPT !.courses = body.courses, !.role = role]
     IN  IF ~users[idToUpdate].present
         THEN /\ users' = users
              /\ session' = session
              /\ acct' = [NoAcct EXCEPT !.op = "profile", !.status = 404]
         ELSE /\ users' = [users EXCEPT ![idToUpdate] = updated]
              /\ session' = IF build = "session" /\ idToUpdate = session.id
                            THEN [id |-> idToUpdate, email |-> updated.email,
                                  role |-> updated.role]
                            ELSE session
              /\ acct' = [NoAcct EXCEPT !.op = "profile", !.status = 200]
  /\ resp' = NoResp
  /\ UNCHANGED <<mailVars, reg, notifications, contentVars, billVars>>

\* POST /api/admin/notifications: insertMany outside any transaction, then
\* the mails.
AdminBroadcast(userIds) ==
  /\ Len(notifications) + Len(UsersIn(userIds)) <= MaxNotifications
  /\ LET found == UsersIn(userIds)
     IN  IF found = <<>>
         THEN /\ acct' = [NoAcct EXCEPT !.op = "broadcast", !.status = 404]
              /\ notifications' = notifications
              /\ outbox' = outbox
         ELSE /\ notifications' = notifications \o
                   [i \in DOMAIN found |-> Note(found[i], "s1", "m1")]
              /\ outbox' = IF mailTransporter
                           THEN outbox \cup {[Mail(u, "broadcast") EXCEPT
                                                !.outcome = "committed"] : u \in Range(found)}
                           ELSE outbox
              /\ acct' = [NoAcct EXCEPT !.op = "broadcast", !.status = 200,
                            !.saved = Len(found)]
  /\ Cardinality(outbox') <= MaxMails
  /\ UNCHANGED <<mailTransporter, reg, users, famVars, contentVars, billVars>>


(***************************************************************************)
(* The account store: one administrator to begin with, visitors who        *)
(* register, the administrator's user routes.                              *)
(***************************************************************************)
InitAccounts ==
  /\ users = [u \in UserIds |-> IF u = "u3" THEN Doc(E_t, "Admin") ELSE Absent]
  /\ session = NoSession
  /\ resp = NoResp
  /\ notifications = <<>>
  /\ content = [c \in ContentIds |-> [present |-> FALSE, kind |-> "Event", recipientIds |-> <<>>]]
  /\ tx = IdleTx /\ sendResp = NoSendResp
  /\ mailTransporter = FALSE /\ outbox = {}
  /\ reg = IdleReg /\ acct = NoAcct
  /\ feeStructures = [f \in FeeIds |-> [Fee("", 0, "", "") EXCEPT !.present = FALSE]]
  /\ invoices = <<>> /\ clock = 0
  /\ runs = [r \in RunIds |-> IdleRun] /\ genHist = <<>>

UserData(email, role, password) == [email |-> email, role |-> role, password |-> password]

AdminCreateBodies == {[email |-> E_PC, role |-> "Student"], [email |-> E_pc, role |-> "Student"]}
AdminUpdateBodies == {[email |-> E_q, role |-> ""], [email |-> <<>>, role |-> "Teacher"]}

NextAccounts ==
  \/ \E r \in {<<UserData(E_p, "Student", TRUE)>>,
               <<UserData(E_p, "Student", TRUE), UserData(E_pc, "Student", TRUE)>>} :
       RegisterBegin("token", r)
  \/ RegisterUser
  \/ RegisterCommit
  \/ RegisterFail
  \/ \E e \in {E_t, E_PC} : AdminRegister(e)
  \/ \E b \in AdminCreateBodies : AdminCreateUser(b)
  \/ \E u \in {"u1", "u2"}, b \in AdminUpdateBodies : AdminUpdateUser(u, b)
  \/ SoftDeleteUser("u2")
  \/ RestoreUser("u2")
  \/ \E u \in {"u1", "u2"} : PermanentDeleteUser(u)

SpecAccounts == InitAccounts /\ [][NextAccounts]_vars

(***************************************************************************)
(* Registration: the three builds of POST /api/register, requests that     *)
(* pass and requests that fail at each step, while the administrator       *)
(* creates and removes accounts.                                           *)
(***************************************************************************)
Builds == {"token", "session", "function"}

RegisterRequests ==
  { <<>>,
    <<UserData(E_p, "Student", TRUE)>>,
    <<UserData(E_q, "Teacher", TRUE)>>,
    <<UserData(E_p, "Student", TRUE), UserData(E_pc, "Student", TRUE)>>,
    <<UserData(E_p, "Student", TRUE), UserData(E_pc, "Student", FALSE)>>,
    <<UserData(E_pc, "Student", TRUE), UserData(E_PC, "Student", TRUE)>> }

NextRegister ==
  \/ \E b \in Builds, r \in RegisterRequests : RegisterBegin(b, r)
  \/ RegisterUser
  \/ RegisterCommit
  \/ RegisterFail
  \/ \E b \in AdminCreateBodies : AdminCreateUser(b)
  \/ \E u \in {"u1", "u2"} : PermanentDeleteUser(u)

SpecRegister == InitAccounts /\ [][NextRegister]_vars

(***************************************************************************)
(* Principals: two students of one family and an administrator; a          *)
(* principal logs in, edits the profile and reads the notifications while  *)
(* the administrator edits the accounts.                                   *)
(***************************************************************************)
InitProfile ==
  /\ users = [u \in UserIds |->
                CASE u = "u1" -> Doc(E_p, "Student")
                  [] u = "u2" -> Doc(E_pc, "Student")
                  [] u = "u3" -> Doc(E_t, "Admin")]
  /\ session = NoSession
  /\ resp = NoResp
  /\ notifications = <<Note("u1", "s1", "m1"), Note("u2", "s1", "m1")>>
  /\ content = [c \in ContentIds |-> [present |-> FALSE, kind |-> "Event", recipientIds |-> <<>>]]
  /\ tx = IdleTx /\ sendResp = NoSendResp
  /\ mailTransporter = FALSE /\ outbox = {}
  /\ reg = IdleReg /\ acct = NoAcct
  /\ feeStructures = [f \in FeeIds |-> [Fee("", 0, "", "") EXCEPT !.present = FALSE]]
  /\ invoices = <<>> /\ clock = 0
  /\ runs = [r \in RunIds |-> IdleRun] /\ genHist = <<>>

ProfileBuilds == {"token", "session", "public"}
ProfileBodies == {[id |-> i, role |-> r, courses |-> <<"Vocal">>] :
                    i \in {"", "u2"}, r \in {"", "Teacher"}}

NextProfile ==
  \/ \E e \in {E_p, E_pc, E_q} : Login(e)
  \/ \E u \in {"u1", "u2"}, b \in AdminUpdateBodies : AdminUpdateUser(u, b)
  \/ \E b \in ProfileBuilds, body \in ProfileBodies : ProfileUpdate(b, body)
  \/ GetNotifications
  \/ GetNotificationsSession
  \/ \E op \in FamilyOps : GetFamilyStudentData(op, "u2")
  \/ \E op \in FamilyOps : GetFamilyStudentDataSession(op, "u2")

SpecProfile == InitProfile /\ [][NextProfile]_vars

(***************************************************************************)
(* Account claims                                                          *)
(***************************************************************************)
\* C22: no two accounts, soft-deleted ones included, have emails that are
\* equal when compared without regard to case.
C22_EmailsUniqueIgnoringCase ==
  \A a \in UserIds, b \in UserIds :
     a # b /\ users[a].present /\ users[b].present
       => toLowerCase(users[a].email) # toLowerCase(users[b].email)

\* C23: while an account exists its role stays the one it was created with.
C23_RoleNeverChanges ==
  [][\A u \in UserIds :
       users[u].present /\ users'[u].present => users'[u].role = users[u].role]_vars

\* C24: an account leaves the store only from the soft-deleted state.
C24_RemovedOnlyFromTrash ==
  [][\A u \in UserIds :
       users[u].present /\ ~users'[u].present => users[u].isDeleted]_vars

\* C26: a family resolution answers with the family of the email the
\* principal's account has in the store at that moment.
C26_ResolutionFollowsTheStoredEmail ==
  resp.op = "notifications" /\ resp.status = 200 /\ users[session.id].present
    => resp.family = ResolvedFamily(resp.build,
                                    [session EXCEPT !.email = users[session.id].email])

\* C28: a profile update by a principal who is not an administrator changes
\* no account but the principal's own.
C28_ProfileUpdateTouchesOwnAccountOnly ==
  [][acct'.op = "profile" /\ session.role # "Admin"
       => \A u \in UserIds : users'[u] # users[u] => u = session.id]_vars


(***************************************************************************)
(* Registration claims                                                     *)
(***************************************************************************)
\* A step of the registration handler; the step that commits.
RegisterStep   == reg' # reg \/ (acct'.op = "register" /\ acct' # acct)
RegisterCommits == reg.pc = "loop" /\ reg'.pc = "idle" /\ acct'.status = 201

\* C25: a registration request is all-or-nothing: the step that answers 201
\* creates every account of the request and the administrator's Notification
\* of every student in it; every other step of the handler writes no account
\* and no Notification, and a request that ends without the 201 is answered
\* with a failure.
C25_RegistrationIsAllOrNothing ==
  [][RegisterStep =>
       IF RegisterCommits
       THEN /\ \A i \in DOMAIN reg.usersData :
                 \E u \in UserIds :
                    /\ ~users[u].present
                    /\ users'[u] = Doc(toLowerCase(reg.usersData[i].email),
                                       reg.usersData[i].role)
            /\ Len(notifications') - Len(notifications) >=
                 Cardinality({i \in DOMAIN reg.usersData :
                                reg.usersData[i].role = "Student"})
       ELSE /\ users' = users
            /\ notifications' = notifications
            /\ reg'.pc = "idle" => acct'.op = "register" /\ acct'.status \in {409, 500}]_vars

\* A request failed at its second user, after the first was saved in the
\* transaction: no account and no Notification is left.
C25_Witness ==
  /\ acct.op = "register" /\ acct.status = 500 /\ acct.saved = 1
  /\ \A u \in {"u1", "u2"} : ~users[u].present
  /\ notifications = <<>>


(***************************************************************************)
(* Mail: a configured transport; the administrator sends content and       *)
(* broadcasts, visitors register, and the handed-over mails settle.        *)
(***************************************************************************)
InitMail ==
  /\ users = [u \in UserIds |->
                CASE u = "u1" -> Doc(E_p, "Student")
                  [] u = "u2" -> Absent
                  [] u = "u3" -> Doc(E_t, "Admin")]
  /\ session = NoSession
  /\ resp = NoResp
  /\ notifications = <<>>
  /\ content = [c \in ContentIds |-> [present |-> TRUE, kind |-> "Event", recipientIds |-> <<>>]]
  /\ tx = IdleTx /\ sendResp = NoSendResp
  /\ mailTransporter = TRUE /\ outbox = {}
  /\ reg = IdleReg /\ acct = NoAcct
  /\ feeStructures = [f \in FeeIds |-> [Fee("", 0, "", "") EXCEPT !.present = FALSE]]
  /\ invoices = <<>> /\ clock = 0
  /\ runs = [r \in RunIds |-> IdleRun] /\ genHist = <<>>

MailSendRequests ==
  {[contentId |-> "c1", contentType |-> "Event", userIds |-> r,
    subject |-> "s1", message |-> "m1"] : r \in {<<"u1", "u3">>}}

MailRegisterRequests ==
  { <<UserData(E_pc, "Student", TRUE)>>,
    <<UserData(E_pc, "Student", TRUE), UserData(E_q, "Student", FALSE)>> }

Deliveries == {"delivered", "failed"}

NextMail ==
  \/ \E a \in MailSendRequests : SendBegin(a)
  \/ SendUpdate
  \/ SendInsert
  \/ SendCommit
  \/ SendFail
  \/ \E r \in {<<"u1">>, <<"u2">>} : AdminBroadcast(r)
  \/ \E b \in {"token", "session"}, r \in MailRegisterRequests : RegisterBegin(b, r)
  \/ RegisterUser
  \/ RegisterCommit
  \/ RegisterFail
  \/ \E m \in outbox, d \in Deliveries : MailSettles(m, d)

SpecMail == InitMail /\ [][NextMail]_vars

(***************************************************************************)
(* Mail claims                                                             *)
(***************************************************************************)
\* The promise of one handed-over mail rejects.
MailFails ==
  \E m \in outbox :
     /\ m.delivery = "sending"
     /\ m \notin outbox'
     /\ [m EXCEPT !.delivery = "failed"] \in outbox'

\* What a send answered with 200 wrote is in the store.
SendPersisted ==
  sendResp.status = 200 =>
     /\ \A i \in DOMAIN sendResp.made :
           \E j \in DOMAIN notifications : notifications[j] = sendResp.made[i]
     /\ sendResp.updated =>
           Range(sendResp.args.userIds) \subseteq
             Range(content[sendResp.args.contentId].recipientIds)

\* What a broadcast answered with 200 wrote is in the store.
BroadcastPersisted ==
  acct.op = "broadcast" /\ acct.status = 200 =>
     Cardinality({j \in DOMAIN notifications : notifications[j].subject = "s1"}) >= acct.saved

\* C27: a failed mail of a send or of a broadcast leaves the recipient list,
\* the Notifications and the answer of the call as they are, and the call is
\* answered while its mails are still on their way.
C27_MailFailureLeavesTheCallAlone ==
  /\ [](SendPersisted /\ BroadcastPersisted)
  /\ [][MailFails => /\ content' = content
                     /\ notifications' = notifications
                     /\ sendResp' = sendResp
                     /\ tx' = tx
                     /\ acct' = acct]_vars

\* A send to two users answered 200; one of its mails failed, the other is
\* still on its way.
C27_Witness ==
  /\ sendResp.status = 200
  /\ Len(sendResp.made) = 2
  /\ SendPersisted
  /\ \E m \in outbox : m.call = "send" /\ m.outcome = "committed" /\ m.delivery = "failed"
  /\ \E m \in outbox : m.call = "send" /\ m.outcome = "committed" /\ m.delivery = "sending"

\* C30: no mail is handed over for a send or a registration whose
\* transaction is then aborted.
C30_NoMailForAbortedWrites ==
  \A m \in outbox : m.call \in {"send", "register"} => m.outcome # "aborted"

====
